---------------------------- MODULE Spec2Model ----------------------------
(***************************************************************************)
(* A model of src/main.py: the video downloader, the GIF segmenter         *)
(* (video_to_gifs), filename sanitization (sanitize_filename) and the      *)
(* GIPHY upload automation (GiphyUploader).                                *)
(*                                                                         *)
(* Strings are sequences of one-character strings.  None is the empty      *)
(* tuple and a present value v is <<v>>.                                   *)
(*                                                                         *)
(* The external collaborators (yt-dlp, ffprobe, ffmpeg, the text model,    *)
(* the pointer position read by pyautogui's fail-safe) are the             *)
(* environment: their answers are nondeterministic.  Every pyautogui call  *)
(* checks the pointer before it acts, so each one either is performed or   *)
(* raises FailSafeException with nothing done.                             *)
(*                                                                         *)
(* Not modelled: the Start button (a second, user-started run of           *)
(* start_process), the ImportError branch of lines 460-463, and exceptions *)
(* other than FailSafeException and a failing generation call.             *)
(***************************************************************************)
EXTENDS Integers, Sequences, FiniteSets, TLC

VARIABLES
    \* ---- sanitize_filename called on its own
    san_name,            \* the argument
    san_result,          \* None, or <<the returned string>>
    \* ---- the main program (lines 401-463)
    pc,                  \* position of the main program
    video_link,          \* the URL read from the prompt, stripped
    downloaded_video_path, \* None or <<path>>
    file_on_disk,        \* file system: the prepared file name exists
    video_title,         \* None or <<title>>
    final_output_dir,    \* None or <<path>> handed to video_to_gifs
    made_dirs,           \* directories created by os.makedirs
    \* ---- video_to_gifs (lines 71-118)
    spc,                 \* position inside video_to_gifs
    video_path,          \* argument
    output_dir,          \* argument
    clip_length,         \* argument (default 3)
    probe_stdout,        \* environment: what ffprobe prints
    probe_calls,         \* number of ffprobe invocations
    duration,            \* the parsed duration
    num_clips,           \* math.ceil(duration / clip_length)
    i,                   \* loop index of the clip loop
    ffmpeg_calls,        \* the transcoder invocations, in order
    \* ---- GiphyUploader (lines 154-398)
    upc,                 \* position inside start_process / generate_and_paste_tags
    self_video_title,    \* self.video_title
    gemini_available,    \* self.gemini_available
    gen_outcome,         \* environment: what model.generate_content will do
    status,              \* self.status (the status label)
    gif_directory,       \* None or <<path>> typed into the file picker
    countdown,           \* loop variable of the 45-second countdown
    tags,                \* the list being pasted
    k,                   \* index of the next tag to paste
    clipboard,           \* the system clipboard (pyperclip.copy)
    log,                 \* every UI step performed, in order
    \* ---- observation only
    tag_source,          \* which branch supplied the tags being pasted
    gen_raised,          \* generate_content raised in this run
    failsafe_fired       \* pyautogui.FailSafeException was raised in this run

sanVars  == <<san_name, san_result>>
mainVars == <<pc, video_link, downloaded_video_path, file_on_disk,
              video_title, final_output_dir>>
segVars  == <<spc, video_path, output_dir, clip_length, probe_stdout,
              probe_calls, duration, num_clips, i, ffmpeg_calls>>
upVars   == <<upc, self_video_title, gemini_available, gen_outcome, status,
              gif_directory, countdown, tags, k, clipboard, log, tag_source,
              gen_raised, failsafe_fired>>
vars     == <<sanVars, mainVars, made_dirs, segVars, upVars>>

-----------------------------------------------------------------------------
(* Bounds of the model *)

MaxNameLen     == 3   \* sanitize_filename: length of the short arguments
MaxTitleLen    == 2   \* main program: length of the short video titles
MaxProbeLen    == 3   \* video_to_gifs: length of ffprobe's output
MaxClipLength  == 3   \* video_to_gifs: largest clip_length argument
MaxResponseLen == 3   \* uploader: length of the text model's response

-----------------------------------------------------------------------------
(* Strings *)

None == <<>>
Some(v) == <<v>>

\* All sequences over S of length at most n.
SeqUpTo(S, n) == UNION {[1..m -> S] : m \in 0..n}

\* n copies of the character c.
Fill(c, n) == [j \in 1..n |-> c]

\* str.replace(old, new) for a one-character old and a string new.
RECURSIVE Replace(_, _, _)
Replace(s, old, new) ==
    IF Len(s) = 0 THEN <<>>
    ELSE IF Len(s) = 1 THEN (IF s[1] = old THEN new ELSE s)
    ELSE LET h == Len(s) \div 2 IN
         Replace(SubSeq(s, 1, h), old, new) \o Replace(SubSeq(s, h + 1, Len(s)), old, new)

\* str.strip(chars): drop leading and trailing characters that are in chars.
RECURSIVE LStrip(_, _)
LStrip(s, chars) ==
    IF s # <<>> /\ Head(s) \in chars THEN LStrip(Tail(s), chars) ELSE s

RECURSIVE RStrip(_, _)
RStrip(s, chars) ==
    IF s # <<>> /\ s[Len(s)] \in chars
    THEN RStrip(SubSeq(s, 1, Len(s) - 1), chars) ELSE s

StripChars(s, chars) == RStrip(LStrip(s, chars), chars)

\* str.strip() with no argument strips whitespace.
Whitespace == {" ", "\t", "\n", "\r"}
Strip(s) == StripChars(s, Whitespace)

\* os.path.join(base, name) on the Windows paths the program uses; name is
\* never absolute here.
OsPathJoin(base, name) == base \o <<"\\">> \o name

-----------------------------------------------------------------------------
(* sanitize_filename, lines 14-30 *)

invalid_chars == <<"<", ">", ":", "\"", "/", "\\", "|", "?", "*">>

MaxFilenameLen == 100

\* lines 20-21: for char in invalid_chars: name = name.replace(char, '')
RECURSIVE RemoveInvalid(_, _)
RemoveInvalid(name, n) ==
    IF n > Len(invalid_chars) THEN name
    ELSE RemoveInvalid(Replace(name, invalid_chars[n], <<>>), n + 1)

\* lines 24-25
LimitLength(name) ==
    IF Len(name) > MaxFilenameLen THEN SubSeq(name, 1, MaxFilenameLen) ELSE name

\* line 28: name.strip().strip('.')
StripEnds(name) == StripChars(Strip(name), {"."})

sanitize_filename(name) == StripEnds(LimitLength(RemoveInvalid(name, 1)))

-----------------------------------------------------------------------------
(* Numbers and their text *)

Digits == <<"0", "1", "2", "3", "4", "5", "6", "7", "8", "9">>
DigitSet == {Digits[d] : d \in 1..10}
DigitVal(c) == (CHOOSE d \in 1..10 : Digits[d] = c) - 1

\* str(n) for an integer n >= 0, as in f"output_{i+1}.gif".
RECURSIVE Str(_)
Str(n) == IF n < 10 THEN <<Digits[n + 1]>> ELSE Str(n \div 10) \o <<Digits[(n % 10) + 1]>>

RECURSIVE Pow10(_)
Pow10(n) == IF n = 0 THEN 1 ELSE 10 * Pow10(n - 1)

\* The integer written by the digits of s, skipping its decimal point.
RECURSIVE DigitsValue(_, _)
DigitsValue(s, acc) ==
    IF s = <<>> THEN acc
    ELSE IF Head(s) = "." THEN DigitsValue(Tail(s), acc)
    ELSE DigitsValue(Tail(s), 10 * acc + DigitVal(Head(s)))

CountOf(s, c) == Cardinality({p \in 1..Len(s) : s[p] = c})

\* Number of digits after the decimal point (0 when there is none).
FractionDigits(s) ==
    IF CountOf(s, ".") = 0 THEN 0
    ELSE Len(s) - (CHOOSE p \in 1..Len(s) : s[p] = ".")

\* A float is held exactly as num/den; kind tells the special values apart.
\* The clip lengths are integers and the durations plain decimals of a few
\* digits, as ffprobe prints them: there the rounding of the float division
\* at line 100 does not move the quotient across an integer (it does only
\* for subnormal durations, whose quotient underflows to 0.0).
Float(kind, num, den) == [kind |-> kind, num |-> num, den |-> den]
Unset == Float("unset", 0, 1)

\* float(text), line 92, on plain decimal notation, "nan" and "inf" (ffprobe
\* prints plain decimals; exponents and digit separators are outside the
\* inputs the model draws).  kind "ValueError" is the raised exception.
ParseUnsigned(s) ==
    IF s = <<"n", "a", "n">> THEN Float("nan", 0, 1)
    ELSE IF s = <<"i", "n", "f">> THEN Float("inf", 1, 1)
    ELSE IF /\ \A p \in 1..Len(s) : s[p] \in DigitSet \cup {"."}
            /\ CountOf(s, ".") <= 1
            /\ Len(s) - CountOf(s, ".") >= 1
         THEN Float("num", DigitsValue(s, 0), Pow10(FractionDigits(s)))
         ELSE Float("ValueError", 0, 1)

ParseFloat(text) ==
    LET s == Strip(text) IN
    IF s # <<>> /\ Head(s) \in {"-", "+"}
    THEN LET u == ParseUnsigned(Tail(s)) IN
         IF Head(s) = "-" THEN Float(u.kind, 0 - u.num, u.den) ELSE u
    ELSE ParseUnsigned(s)

\* A faulty variant of CeilDiv: rounds down (math.floor for math.ceil).
FloorDiv(num, den, b) == num \div (den * b)

\* math.ceil(a / b) for an exact a = num/den and an integer b > 0.
CeilDiv(num, den, b) == 0 - ((0 - num) \div (den * b))

-----------------------------------------------------------------------------
(* video_to_gifs, lines 71-118 *)

DefaultClipLength == 3

\* lines 76-80: create the output folder when it is not there.  Whether it
\* is already there (an earlier run) is the environment's.
SegMakeDir ==
    /\ spc = "mkdir"
    /\ \E exists \in BOOLEAN :
         made_dirs' = IF exists \/ output_dir \in made_dirs
                      THEN made_dirs ELSE made_dirs \cup {output_dir}
    /\ spc' = "probe"
    /\ UNCHANGED <<sanVars, mainVars, upVars, video_path, output_dir,
                   clip_length, probe_stdout, probe_calls, duration,
                   num_clips, i, ffmpeg_calls>>

\* A faulty variant of AfterParse: the handler of ValueError does not return and goes
\* on with a duration of one second.
AfterParseNoReturn(parsed) ==
    IF parsed.kind = "ValueError"
    THEN [next |-> "ceil", duration |-> Float("num", 1, 1)]
    ELSE [next |-> "ceil", duration |-> parsed]

\* lines 91-95: where control goes after float(result.stdout.strip()).
AfterParse(parsed) ==
    IF parsed.kind = "ValueError"
    THEN [next |-> "returned", duration |-> Unset]
    ELSE [next |-> "ceil", duration |-> parsed]

\* lines 83-97: run ffprobe and parse what it printed.
SegProbe ==
    /\ spc = "probe"
    /\ probe_calls' = probe_calls + 1
    /\ LET r == AfterParse(ParseFloat(Strip(probe_stdout))) IN
         /\ spc' = r.next
         /\ duration' = r.duration
    /\ UNCHANGED <<sanVars, mainVars, upVars, made_dirs, video_path,
                   output_dir, clip_length, probe_stdout, num_clips, i,
                   ffmpeg_calls>>

\* line 100: num_clips = math.ceil(duration / clip_length).
NumClips(d, L) == CeilDiv(d.num, d.den, L)

\* line 100 on a NaN or an infinity: math.ceil raises ValueError or
\* OverflowError, which nothing catches.
SegCeilRaises ==
    /\ spc = "ceil"
    /\ duration.kind \in {"nan", "inf"}
    /\ spc' = "crashed"
    /\ UNCHANGED <<sanVars, mainVars, upVars, made_dirs, video_path,
                   output_dir, clip_length, probe_stdout, probe_calls,
                   duration, num_clips, i, ffmpeg_calls>>

\* lines 100-103: the clip count, and the loop starts at i = 0.
SegCeil ==
    /\ spc = "ceil"
    /\ duration.kind = "num"
    /\ num_clips' = NumClips(duration, clip_length)
    /\ i' = 0
    /\ spc' = "loop"
    /\ UNCHANGED <<sanVars, mainVars, upVars, made_dirs, video_path,
                   output_dir, clip_length, probe_stdout, probe_calls,
                   duration, ffmpeg_calls>>

\* A faulty variant of ClipStart: each clip after the first starts one second early.
ClipStartOverlapping(n, L) == IF n = 0 THEN 0 ELSE n * L - 1

\* line 104
ClipStart(n, L) == n * L

\* line 105
ClipOutputPath(dir, n) ==
    OsPathJoin(dir, <<"o", "u", "t", "p", "u", "t", "_">> \o Str(n + 1)
                    \o <<".", "g", "i", "f">>)

\* lines 108-115: the ffmpeg command (-ss start, -t clip_length, -i video, out).
FfmpegCommand(n) ==
    [ss  |-> ClipStart(n, clip_length),
     t   |-> clip_length,
     in  |-> video_path,
     out |-> ClipOutputPath(output_dir, n)]

\* lines 103-118: one iteration of the clip loop.
SegClip ==
    /\ spc = "loop"
    /\ i < num_clips
    /\ ffmpeg_calls' = Append(ffmpeg_calls, FfmpegCommand(i))
    /\ i' = i + 1
    /\ UNCHANGED <<sanVars, mainVars, upVars, made_dirs, spc, video_path,
                   output_dir, clip_length, probe_stdout, probe_calls,
                   duration, num_clips>>

\* line 103: range(num_clips) is exhausted, the function returns.
SegReturn ==
    /\ spc = "loop"
    /\ i >= num_clips
    /\ spc' = "returned"
    /\ UNCHANGED <<sanVars, mainVars, upVars, made_dirs, video_path,
                   output_dir, clip_length, probe_stdout, probe_calls,
                   duration, num_clips, i, ffmpeg_calls>>

-----------------------------------------------------------------------------
(* GiphyUploader, lines 154-398 *)

\* One UI step: op is "open", "click", "write", "press", "hotkey", "paste"
\* (the hotkey ctrl+v, with the clipboard it pastes) or "wait" (one tick of
\* the processing countdown).
Ev(op, x, y, text) == [op |-> op, x |-> x, y |-> y, text |-> text]

GiphyUrl == <<"https://giphy.com/">>

\* line 284
DefaultTagsUnavailable ==
    << <<"#", "g", "i", "f">>,
       <<"#", "a", "n", "i", "m", "a", "t", "i", "o", "n">>,
       <<"#", "f", "u", "n", "n", "y">>,
       <<"#", "m", "e", "m", "e">>,
       <<"#", "t", "r", "e", "n", "d", "i", "n", "g">>,
       <<"#", "v", "i", "r", "a", "l">> >>

\* line 303
DefaultTagsOnEmpty ==
    << <<"#", "g", "i", "f">>,
       <<"#", "a", "n", "i", "m", "a", "t", "i", "o", "n">>,
       <<"#", "f", "u", "n">>,
       <<"#", "t", "r", "e", "n", "d", "i", "n", "g">>,
       <<"#", "v", "i", "r", "a", "l">>,
       <<"#", "m", "e", "m", "e">> >>

\* line 324
DefaultTagsOnError ==
    << <<"#", "g", "i", "f">>,
       <<"#", "a", "n", "i", "m", "a", "t", "i", "o", "n">>,
       <<"#", "f", "u", "n">>,
       <<"#", "m", "e", "m", "e">>,
       <<"#", "t", "r", "e", "n", "d", "i", "n", "g">>,
       <<"#", "v", "i", "r", "a", "l">> >>

\* str.split(sep) for a one-character sep.
RECURSIVE SplitAcc(_, _, _)
SplitAcc(s, sep, cur) ==
    IF s = <<>> THEN <<cur>>
    ELSE IF Head(s) = sep THEN <<cur>> \o SplitAcc(Tail(s), sep, <<>>)
    ELSE SplitAcc(Tail(s), sep, Append(cur, Head(s)))

Split(s, sep) == SplitAcc(s, sep, <<>>)

\* [tag.strip() for tag in parts if tag.strip()]
RECURSIVE StripNonEmpty(_)
StripNonEmpty(parts) ==
    IF parts = <<>> THEN <<>>
    ELSE LET t == Strip(Head(parts)) IN
         (IF t = <<>> THEN <<>> ELSE <<t>>) \o StripNonEmpty(Tail(parts))

\* lines 299-300
ParseTags(text) ==
    StripNonEmpty(Split(Replace(Strip(text), "\n", <<>>), ","))

\* lines 302-303
TagsOrDefault(parsed) == IF parsed = <<>> THEN DefaultTagsOnEmpty ELSE parsed

\* A faulty variant of UploaderFolderName: sanitizes the title before "_gifs" is
\* appended instead of after.
UploaderFolderNameSanitizeFirst(title) ==
    sanitize_filename(Replace(title, " ", <<"_">>)) \o <<"_", "g", "i", "f", "s">>

\* line 352
UploaderFolderName(title) ==
    sanitize_filename(Replace(title, " ", <<"_">>) \o <<"_", "g", "i", "f", "s">>)

\* line 353
UploaderBaseDir == <<"C:\\Users\\harip\\ALL TEST">>
UploaderGifDirectory(title) == OsPathJoin(UploaderBaseDir, UploaderFolderName(title))

AbortedStatus == "Process was aborted by moving mouse to corner"

\* A pyautogui call that goes through: the step is performed.
Performed(next, ev, st) ==
    /\ log' = Append(log, ev)
    /\ upc' = next
    /\ status' = st
    /\ UNCHANGED failsafe_fired

\* A pyautogui call that raises FailSafeException (the pointer is in a
\* screen corner) outside generate_and_paste_tags' try: lines 392-393.
Aborted ==
    /\ failsafe_fired' = TRUE
    /\ upc' = "aborted"
    /\ status' = AbortedStatus
    /\ UNCHANGED log

\* click_at_position, lines 275-278, as a step of start_process.
Click(cur, next, x, y, description) ==
    /\ upc = cur
    /\ \/ Performed(next, Ev("click", x, y, <<>>), description)
       \/ Aborted

upRest == <<self_video_title, gemini_available, gen_outcome, gif_directory,
            countdown, tags, k, clipboard, tag_source, gen_raised>>
notUp  == <<sanVars, mainVars, made_dirs, segVars>>

\* __init__ with auto_start: root.after(2000, self.start_process) fires.
UpStart ==
    /\ upc = "scheduled"
    /\ upc' = "open"
    /\ status' = "Starting GIPHY upload process..."
    /\ UNCHANGED <<notUp, upRest, log, failsafe_fired>>

\* lines 337-340
UpOpen ==
    /\ upc = "open"
    /\ log' = Append(log, Ev("open", 0, 0, GiphyUrl))
    /\ upc' = "click_upload"
    /\ status' = "Opening GIPHY website..."
    /\ UNCHANGED <<notUp, upRest, failsafe_fired>>

\* line 343
UpClickUpload ==
    /\ Click("click_upload", "click_file_area", 1229, 191, "Clicking on upload button")
    /\ UNCHANGED <<notUp, upRest>>

\* line 346
UpClickFileArea ==
    /\ Click("click_file_area", "click_path_input", 705, 714,
             "Clicking on file selection area")
    /\ UNCHANGED <<notUp, upRest>>

\* line 349
UpClickPathInput ==
    /\ Click("click_path_input", "write_path", 445, 167, "Clicking on path input")
    /\ UNCHANGED <<notUp, upRest>>

\* lines 352-356
UpWritePath ==
    /\ upc = "write_path"
    /\ gif_directory' = Some(UploaderGifDirectory(self_video_title))
    /\ \/ Performed("enter_path",
                    Ev("write", 0, 0, UploaderGifDirectory(self_video_title)),
                    "Pasting file path")
       \/ Aborted
    /\ UNCHANGED <<notUp, self_video_title, gemini_available, gen_outcome,
                   countdown, tags, k, clipboard, tag_source, gen_raised>>

\* lines 357-358
UpEnterPath ==
    /\ upc = "enter_path"
    /\ \/ Performed("click_name", Ev("press", 0, 0, <<"enter">>), status)
       \/ Aborted
    /\ UNCHANGED <<notUp, upRest>>

\* line 361
UpClickName ==
    /\ Click("click_name", "write_name", 765, 165, "Clicking on name field")
    /\ UNCHANGED <<notUp, upRest>>

\* lines 362-364
UpWriteName ==
    /\ upc = "write_name"
    /\ \/ Performed("click_files", Ev("write", 0, 0, self_video_title),
                    "Entering name")
       \/ Aborted
    /\ UNCHANGED <<notUp, upRest>>

\* line 367
UpClickFiles ==
    /\ Click("click_files", "select_all", 376, 234, "Clicking on file area to focus")
    /\ UNCHANGED <<notUp, upRest>>

\* lines 368-369
UpSelectAll ==
    /\ upc = "select_all"
    /\ \/ Performed("click_open", Ev("hotkey", 0, 0, <<"ctrl", "a">>), status)
       \/ Aborted
    /\ UNCHANGED <<notUp, upRest>>

CountdownFrom == 45
CountdownStep == 5

\* lines 372-376: the Open button, then the countdown loop starts.
UpClickOpen ==
    /\ Click("click_open", "countdown", 770, 628,
             "Confirming selection - Clicking Open")
    /\ countdown' = IF upc' = "countdown" THEN CountdownFrom ELSE countdown
    /\ UNCHANGED <<notUp, self_video_title, gemini_available, gen_outcome,
                   gif_directory, tags, k, clipboard, tag_source, gen_raised>>

\* lines 376-378: one iteration of for i in range(45, 0, -5).
UpCountdownTick ==
    /\ upc = "countdown"
    /\ log' = Append(log, Ev("wait", countdown, 0, <<>>))
    /\ status' = "Processing..."
    /\ countdown' = countdown - CountdownStep
    /\ upc' = IF countdown - CountdownStep > 0 THEN "countdown" ELSE "click_tags"
    /\ UNCHANGED <<notUp, self_video_title, gemini_available, gen_outcome,
                   gif_directory, tags, k, clipboard, tag_source, gen_raised,
                   failsafe_fired>>

\* lines 381-382
UpClickTags ==
    /\ Click("click_tags", "tags_begin", 1211, 603, "Opening tags section")
    /\ UNCHANGED <<notUp, upRest>>

\* The paste loops at lines 311-316 run inside the try of line 293; those
\* at lines 285-290 and 325-330 do not.
InTry == tag_source \in {"generated", "empty"}

\* lines 282-284: the collaborator is not available.
UpTagsUnavailable ==
    /\ upc = "tags_begin"
    /\ ~gemini_available
    /\ status' = "Gemini AI not available - using default tags"
    /\ tags' = DefaultTagsUnavailable
    /\ k' = 1
    /\ tag_source' = "unavailable"
    /\ upc' = "copy"
    /\ UNCHANGED <<notUp, self_video_title, gemini_available, gen_outcome,
                   gif_directory, countdown, clipboard, log, gen_raised,
                   failsafe_fired>>

\* A faulty variant of OnGenerate: the handler of line 320 reports the error and
\* pastes nothing.
OnGenerateNoFallback(outcome) ==
    IF outcome.kind = "raise"
    THEN [tags |-> <<>>, source |-> "error", raised |-> TRUE,
          status |-> "Error generating tags - using defaults"]
    ELSE LET parsed == ParseTags(outcome.text) IN
         [tags |-> TagsOrDefault(parsed),
          source |-> IF parsed = <<>> THEN "empty" ELSE "generated",
          raised |-> FALSE,
          status |-> "Generating tags with AI..."]

\* lines 294-305, and 320-324 when generate_content raises: the list to
\* paste, the branch it comes from and the status shown.
OnGenerate(outcome) ==
    IF outcome.kind = "raise"
    THEN [tags |-> DefaultTagsOnError, source |-> "error", raised |-> TRUE,
          status |-> "Error generating tags - using defaults"]
    ELSE LET parsed == ParseTags(outcome.text) IN
         [tags |-> TagsOrDefault(parsed),
          source |-> IF parsed = <<>> THEN "empty" ELSE "generated",
          raised |-> FALSE,
          status |-> "Generating tags with AI..."]

UpGenerate ==
    /\ upc = "tags_begin"
    /\ gemini_available
    /\ LET r == OnGenerate(gen_outcome) IN
         /\ tags' = r.tags
         /\ tag_source' = r.source
         /\ gen_raised' = r.raised
         /\ status' = r.status
    /\ k' = 1
    /\ upc' = "copy"
    /\ UNCHANGED <<notUp, self_video_title, gemini_available, gen_outcome,
                   gif_directory, countdown, clipboard, log, failsafe_fired>>

\* lines 286, 312, 326: pyperclip.copy(tag) for the next tag of the loop.
UpCopyTag ==
    /\ upc = "copy"
    /\ k <= Len(tags)
    /\ clipboard' = tags[k]
    /\ upc' = "paste"
    /\ UNCHANGED <<notUp, self_video_title, gemini_available, gen_outcome,
                   status, gif_directory, countdown, tags, k, log, tag_source,
                   gen_raised, failsafe_fired>>

\* A pyautogui call of the loop at lines 311-316 raises FailSafeException:
\* it is an Exception, so the handler at line 320 catches it and starts
\* pasting the default tags (lines 321-326).
CaughtInTagEntry ==
    /\ failsafe_fired' = TRUE
    /\ status' = "Error generating tags - using defaults"
    /\ tags' = DefaultTagsOnError
    /\ k' = 1
    /\ tag_source' = "error"
    /\ upc' = "copy"
    /\ UNCHANGED log

\* lines 287, 313, 327: pyautogui.hotkey("ctrl", "v").
UpPasteTag ==
    /\ upc = "paste"
    /\ \/ /\ Performed("enter", Ev("paste", 0, 0, clipboard), status)
          /\ UNCHANGED <<tags, k, tag_source>>
       \/ /\ InTry
          /\ CaughtInTagEntry
       \/ /\ ~InTry
          /\ Aborted
          /\ UNCHANGED <<tags, k, tag_source>>
    /\ UNCHANGED <<notUp, self_video_title, gemini_available, gen_outcome,
                   gif_directory, countdown, clipboard, gen_raised>>

\* lines 289, 315, 329: pyautogui.press("enter"), then the next tag.
UpEnterTag ==
    /\ upc = "enter"
    /\ \/ /\ Performed("copy", Ev("press", 0, 0, <<"enter">>), status)
          /\ k' = k + 1
          /\ UNCHANGED <<tags, tag_source>>
       \/ /\ InTry
          /\ CaughtInTagEntry
       \/ /\ ~InTry
          /\ Aborted
          /\ UNCHANGED <<tags, k, tag_source>>
    /\ UNCHANGED <<notUp, self_video_title, gemini_available, gen_outcome,
                   gif_directory, countdown, clipboard, gen_raised>>

\* A faulty variant of UpTagsReturn: the run ends after tag entry, without the final
\* submit click.
UpTagsReturnSkipsSubmit ==
    /\ upc = "copy"
    /\ k > Len(tags)
    /\ status' = "Upload process completed successfully!"
    /\ upc' = "done"
    /\ UNCHANGED <<notUp, upRest, log, failsafe_fired>>

\* lines 291, 318, 330: the loop is over, generate_and_paste_tags returns.
UpTagsReturn ==
    /\ upc = "copy"
    /\ k > Len(tags)
    /\ status' = IF InTry THEN "Tags successfully added!" ELSE status
    /\ upc' = "click_final"
    /\ UNCHANGED <<notUp, upRest, log, failsafe_fired>>

\* lines 388-390
UpFinalClick ==
    /\ upc = "click_final"
    /\ \/ Performed("done", Ev("click", 1257, 1035, <<>>),
                    "Upload process completed successfully!")
       \/ Aborted
    /\ UNCHANGED <<notUp, upRest>>

UploadNext ==
    \/ UpStart \/ UpOpen \/ UpClickUpload \/ UpClickFileArea
    \/ UpClickPathInput \/ UpWritePath \/ UpEnterPath \/ UpClickName
    \/ UpWriteName \/ UpClickFiles \/ UpSelectAll \/ UpClickOpen
    \/ UpCountdownTick \/ UpClickTags \/ UpTagsUnavailable \/ UpGenerate
    \/ UpCopyTag \/ UpPasteTag \/ UpEnterTag \/ UpTagsReturn \/ UpFinalClick

-----------------------------------------------------------------------------
(* The main program, lines 401-463 *)

download_dir == <<"D:\\downloads">>
MainBaseDir == <<"C:\\Users\\harip\\ALL TEST">>

\* What the user may type at the prompt.
UrlInputs == {<<>>, <<" ">>, <<"u">>, <<"u", "\n">>}

\* Video titles: every short string over TitleAlphabet, and long ones that
\* reach sanitize_filename's length limit.
TitleAlphabet == {"a", " ", ".", ":"}
ShortTitles == SeqUpTo(TitleAlphabet, MaxTitleLen)
LongTitles ==
    {Fill("a", MaxFilenameLen - 5) \o t : t \in [1..1 -> TitleAlphabet]}
Titles == ShortTitles \cup LongTitles

\* line 46: the file name yt-dlp prepares for a title.
PreparedFilename(title) ==
    OsPathJoin(download_dir, title \o <<" ", "[", "id", "]", ".", "mp4">>)

\* lines 407-411
MainReadUrl ==
    /\ pc = "prompt"
    /\ \E typed \in UrlInputs :
         /\ video_link' = Strip(typed)
         /\ pc' = IF Strip(typed) = <<>> THEN "exited" ELSE "download"
    /\ UNCHANGED <<sanVars, downloaded_video_path, file_on_disk, video_title,
                   final_output_dir, made_dirs, segVars, upVars>>

\* download_video_from_url, lines 32-69, and the assignment of line 414.
MainDownload ==
    /\ pc = "download"
    /\ \E exists \in BOOLEAN :
         made_dirs' = IF exists \/ download_dir \in made_dirs
                      THEN made_dirs ELSE made_dirs \cup {download_dir}
    /\ \/ \E title \in Titles, on_disk \in BOOLEAN :  \* lines 55-62
            /\ downloaded_video_path' = Some(PreparedFilename(title))
            /\ video_title' = Some(title)
            /\ file_on_disk' = on_disk
       \/ /\ downloaded_video_path' = None          \* lines 64-69
          /\ video_title' = None
          /\ file_on_disk' = FALSE
    /\ pc' = "check"
    /\ UNCHANGED <<sanVars, video_link, final_output_dir, segVars, upVars>>

\* A faulty variant of DownloadFailed: the file's existence is not checked.
DownloadFailedNoExistsCheck(path, on_disk) == path = None \/ path = Some(<<>>)

\* line 416: not downloaded_video_path or not os.path.exists(...).
DownloadFailed(path, on_disk) == path = None \/ path = Some(<<>>) \/ ~on_disk

\* lines 416-418
MainCheckDownload ==
    /\ pc = "check"
    /\ pc' = IF DownloadFailed(downloaded_video_path, file_on_disk)
             THEN "exited" ELSE "convert"
    /\ UNCHANGED <<sanVars, video_link, downloaded_video_path, file_on_disk,
                   video_title, final_output_dir, made_dirs, segVars, upVars>>

\* line 429
MainFolderName(title) ==
    sanitize_filename(Replace(title, " ", <<"_">>) \o <<"_", "g", "i", "f", "s">>)

\* line 430
MainOutputDir(title) == OsPathJoin(MainBaseDir, MainFolderName(title))

\* lines 429-435: video_to_gifs(downloaded_video_path, final_output_dir).
MainConvert ==
    /\ pc = "convert"
    /\ final_output_dir' = Some(MainOutputDir(video_title[1]))
    /\ video_path' = downloaded_video_path[1]
    /\ output_dir' = MainOutputDir(video_title[1])
    /\ clip_length' = DefaultClipLength
    /\ spc' = "mkdir"
    /\ pc' = "segment"
    /\ UNCHANGED <<sanVars, video_link, downloaded_video_path, file_on_disk, video_title,
                   made_dirs, probe_stdout, probe_calls, duration, num_clips,
                   i, ffmpeg_calls, upVars>>

\* An exception of video_to_gifs that nothing catches ends the program.
MainSegmenterRaised ==
    /\ pc = "segment"
    /\ spc = "crashed"
    /\ pc' = "crashed"
    /\ UNCHANGED <<sanVars, video_link, downloaded_video_path, file_on_disk, video_title,
                   final_output_dir, made_dirs, segVars, upVars>>

\* lines 437-451: video_to_gifs returned; the 10-second cooldown.
MainCooldown ==
    /\ pc = "segment"
    /\ spc = "returned"
    /\ pc' = "start_uploader"
    /\ UNCHANGED <<sanVars, video_link, downloaded_video_path, file_on_disk, video_title,
                   final_output_dir, made_dirs, segVars, upVars>>

\* lines 458-459 and __init__, lines 155-180: whether the text model could
\* be set up (setup_gemini, lines 182-218) is the environment's.
MainStartUploader ==
    /\ pc = "start_uploader"
    /\ self_video_title' = video_title[1]
    /\ \E available \in BOOLEAN : gemini_available' = available
    /\ status' = "Ready to start GIPHY upload process"
    /\ upc' = "scheduled"
    /\ pc' = "mainloop"
    /\ UNCHANGED <<sanVars, video_link, downloaded_video_path, file_on_disk, video_title,
                   final_output_dir, made_dirs, segVars, gen_outcome,
                   gif_directory, countdown, tags, k, clipboard, log,
                   tag_source, gen_raised, failsafe_fired>>

SegNext == SegMakeDir \/ SegProbe \/ SegCeilRaises \/ SegCeil \/ SegClip \/ SegReturn

MainNext ==
    \/ MainReadUrl \/ MainDownload \/ MainCheckDownload \/ MainConvert
    \/ MainSegmenterRaised \/ MainCooldown \/ MainStartUploader

Next == MainNext \/ SegNext \/ UploadNext

-----------------------------------------------------------------------------
(* Initial states and specifications *)

SanIdle  == san_name = <<>> /\ san_result = None
MainIdle ==
    /\ video_link = <<>>
    /\ downloaded_video_path = None
    /\ file_on_disk = FALSE
    /\ video_title = None
    /\ final_output_dir = None
SegIdle ==
    /\ probe_calls = 0
    /\ duration = Unset
    /\ num_clips = 0
    /\ i = 0
    /\ ffmpeg_calls = <<>>
UpIdle ==
    /\ gif_directory = None
    /\ countdown = 0
    /\ tags = <<>>
    /\ k = 1
    /\ clipboard = <<>>
    /\ log = <<>>
    /\ tag_source = "none"
    /\ gen_raised = FALSE
    /\ failsafe_fired = FALSE

Raise == [kind |-> "raise", text |-> <<>>]
Text(t) == [kind |-> "text", text |-> t]

\* The whole program: ffprobe's output and the text model's behaviour are
\* drawn from representative cases.
MainProbeOutputs ==
    {<<"a", "b", "c">>, <<"n", "a", "n", "\n">>, <<"1", "0", ".", "5", "\n">>}
MainGenOutcomes == {Raise, Text(<<"a", ",", " ", "b">>)}

Init ==
    /\ SanIdle /\ MainIdle /\ SegIdle /\ UpIdle
    /\ pc = "prompt"
    /\ made_dirs = {}
    /\ spc = "idle" /\ video_path = <<>> /\ output_dir = <<>>
    /\ clip_length = DefaultClipLength
    /\ probe_stdout \in MainProbeOutputs
    /\ upc = "idle" /\ self_video_title = <<>> /\ gemini_available = FALSE
    /\ status = ""
    /\ gen_outcome \in MainGenOutcomes

Spec == Init /\ [][Next]_vars

\* video_to_gifs called on its own, for every clip length and every short
\* output of ffprobe.
ProbeAlphabet == {"0", "1", ".", "-", "a", "n", "\n"}
ProbeOutputs == SeqUpTo(ProbeAlphabet, MaxProbeLen) \cup {<<"a", "b", "c">>}
SegVideoPath == <<"v", ".", "m", "p", "4">>
SegOutputDir == <<"o", "u", "t">>

SegInit ==
    /\ SanIdle /\ MainIdle /\ SegIdle /\ UpIdle
    /\ pc = "harness"
    /\ made_dirs = {}
    /\ spc = "mkdir" /\ video_path = SegVideoPath /\ output_dir = SegOutputDir
    /\ clip_length \in 1..MaxClipLength
    /\ probe_stdout \in ProbeOutputs
    /\ upc = "idle" /\ self_video_title = <<>> /\ gemini_available = FALSE
    /\ status = ""
    /\ gen_outcome = Raise

SegSpec == SegInit /\ [][SegNext]_vars

\* The uploader on its own, as constructed with auto_start, for every short
\* response of the text model.
ResponseAlphabet == {"a", "b", ",", " ", "\n"}
GenOutcomes == {Raise} \cup {Text(t) : t \in SeqUpTo(ResponseAlphabet, MaxResponseLen)}
UploadTitles == {<<"a", " ", "b">>, <<":", "a", ".">>}

UploadInit ==
    /\ SanIdle /\ MainIdle /\ SegIdle /\ UpIdle
    /\ pc = "harness"
    /\ made_dirs = {}
    /\ spc = "idle" /\ video_path = <<>> /\ output_dir = <<>>
    /\ clip_length = DefaultClipLength
    /\ probe_stdout = <<>>
    /\ upc = "scheduled"
    /\ self_video_title \in UploadTitles
    /\ gemini_available \in BOOLEAN
    /\ status = "Ready to start GIPHY upload process"
    /\ gen_outcome \in IF gemini_available THEN GenOutcomes ELSE {Raise}

UploadSpec == UploadInit /\ [][UploadNext]_vars

\* sanitize_filename called on its own.
NameAlphabet == {"a", " ", ".", ":", "\t"}
ShortNames == SeqUpTo(NameAlphabet, MaxNameLen)
LongNames ==
    {Fill("a", MaxFilenameLen - 2) \o t : t \in [1..MaxNameLen -> NameAlphabet]}
Names == ShortNames \cup LongNames \cup {<<"A", ":", "B", "*", "C">>}

SanInit ==
    /\ MainIdle /\ SegIdle /\ UpIdle
    /\ san_name \in Names
    /\ san_result = None
    /\ pc = "harness"
    /\ made_dirs = {}
    /\ spc = "idle" /\ video_path = <<>> /\ output_dir = <<>>
    /\ clip_length = DefaultClipLength
    /\ probe_stdout = <<>>
    /\ upc = "idle" /\ self_video_title = <<>> /\ gemini_available = FALSE
    /\ status = ""
    /\ gen_outcome = Raise

SanitizeCall ==
    /\ san_result = None
    /\ san_result' = Some(sanitize_filename(san_name))
    /\ UNCHANGED <<san_name, mainVars, made_dirs, segVars, upVars>>

SanNext == SanitizeCall

SanSpec == SanInit /\ [][SanNext]_vars

-----------------------------------------------------------------------------
(* Properties *)

IsPrefix(a, b) == Len(a) <= Len(b) /\ SubSeq(b, 1, Len(a)) = a

\* The least n >= 0 with n * L >= D, for D = num/den >= 0: ceil(D / L).
CeilOf(num, den, L) == CHOOSE n \in 0..num : n * L * den >= num /\ (n = 0 \/ (n - 1) * L * den < num)

ProbedNonNegative == duration.kind = "num" /\ duration.num >= 0

\* C1: for a probed duration D >= 0 and a clip length L > 0, video_to_gifs
\* invokes the transcoder exactly ceil(D/L) times, the j-th invocation being
\* the one for index j-1 (start (j-1)*L, file output_j.gif), and never for
\* any other index: while it runs, the invocations made so far are the
\* first ones of that list, and when it returns they are all of it.
C1_ClipCount ==
    ProbedNonNegative =>
        LET n == CeilOf(duration.num, duration.den, clip_length) IN
        /\ Len(ffmpeg_calls) <= n
        /\ spc = "returned" => Len(ffmpeg_calls) = n
        /\ \A j \in 1..Len(ffmpeg_calls) :
             /\ ffmpeg_calls[j].ss = (j - 1) * clip_length
             /\ ffmpeg_calls[j].out =
                  OsPathJoin(output_dir, <<"o", "u", "t", "p", "u", "t", "_">>
                                         \o Str(j) \o <<".", "g", "i", "f">>)

\* D = 10, L = 3: four invocations, and the function has returned.
C1_Witness ==
    /\ spc = "returned"
    /\ Strip(probe_stdout) = <<"1", "0">>
    /\ clip_length = 3
    /\ Len(ffmpeg_calls) = 4

\* C2: the result of sanitize_filename contains none of < > : " / \ | ? *,
\* is at most 100 characters long, and neither begins nor ends with a dot
\* or a space.
C2_SanitizedClean ==
    san_result # None =>
        LET r == san_result[1] IN
        /\ \A p \in 1..Len(r) : r[p] \notin {"<", ">", ":", "\"", "/", "\\", "|", "?", "*"}
        /\ Len(r) <= 100
        /\ r # <<>> => r[1] \notin {".", " "} /\ r[Len(r)] \notin {".", " "}

\* C3: when the download fails (no file path, or a path that does not
\* exist), the program ends without calling the segmenter: no GIF output
\* directory is created, ffprobe and ffmpeg are never invoked and the
\* uploader is never started.
C3_DownloadFailureStops ==
    (pc \notin {"prompt", "download"} /\ video_link # <<>>
        /\ (downloaded_video_path = None \/ ~file_on_disk)) =>
        /\ pc \in {"check", "exited"}
        /\ spc = "idle"
        /\ final_output_dir = None
        /\ made_dirs \subseteq {download_dir}
        /\ probe_calls = 0
        /\ ffmpeg_calls = <<>>
        /\ upc = "idle"
        /\ log = <<>>

\* A path was returned, the file is not on disk, and the program has exited.
C3_Witness ==
    /\ pc = "exited"
    /\ video_link # <<>>
    /\ downloaded_video_path # None
    /\ ~file_on_disk

\* C4: when ffprobe's output cannot be parsed as a number, video_to_gifs
\* returns right after the probe without invoking the transcoder, so no
\* output_N.gif is written.
C4_UnparsableAborts ==
    ParseFloat(Strip(probe_stdout)).kind = "ValueError" =>
        /\ ffmpeg_calls = <<>>
        /\ spc \in {"idle", "mkdir", "probe", "returned"}
        /\ probe_calls <= 1

\* The probe printed "abc" and the function has returned.
C4_Witness ==
    /\ probe_stdout = <<"a", "b", "c">>
    /\ probe_calls = 1
    /\ spc = "returned"
    /\ ffmpeg_calls = <<>>

\* The tags pasted, and those pasted and then confirmed with Enter.
RECURSIVE PastedTags(_)
PastedTags(l) ==
    IF l = <<>> THEN <<>>
    ELSE (IF Head(l).op = "paste" THEN <<Head(l).text>> ELSE <<>>) \o PastedTags(Tail(l))

RECURSIVE ConfirmedTags(_)
ConfirmedTags(l) ==
    IF Len(l) < 2 THEN <<>>
    ELSE IF l[1].op = "paste" /\ l[2] = Ev("press", 0, 0, <<"enter">>)
         THEN <<l[1].text>> \o ConfirmedTags(Tail(Tail(l)))
         ELSE ConfirmedTags(Tail(l))

SixDefaultTags ==
    << <<"#", "g", "i", "f">>,
       <<"#", "a", "n", "i", "m", "a", "t", "i", "o", "n">>,
       <<"#", "f", "u", "n">>,
       <<"#", "m", "e", "m", "e">>,
       <<"#", "t", "r", "e", "n", "d", "i", "n", "g">>,
       <<"#", "v", "i", "r", "a", "l">> >>

TagEntryOver == upc \in {"click_final", "done", "aborted"}

\* C5 as stated: when the collaborator is available and its generation call
\* raises, the tags emitted by generate_and_paste_tags are exactly the six
\* default tags, in order, nothing before or after.
C5_Original ==
    (gemini_available /\ gen_raised /\ TagEntryOver) =>
        /\ ConfirmedTags(log) = SixDefaultTags
        /\ PastedTags(log) = SixDefaultTags

\* C5 amended: when the collaborator is available and its generation call
\* raises, the tags emitted are at every moment the first ones of the six
\* default tags of the failure handler (#gif, #animation, #fun, #meme,
\* #trending, #viral), and they are exactly that list, in order, when tag
\* entry returns (no fail-safe abort interrupted it).
C5_FallbackOnRaise ==
    (gemini_available /\ gen_raised) =>
        /\ IsPrefix(PastedTags(log), SixDefaultTags)
        /\ IsPrefix(ConfirmedTags(log), PastedTags(log))
        /\ Len(PastedTags(log)) <= Len(ConfirmedTags(log)) + 1
        /\ upc \in {"click_final", "done"} =>
             /\ ConfirmedTags(log) = SixDefaultTags
             /\ PastedTags(log) = SixDefaultTags

\* The generation call raised and all six tags were entered.
C5_Witness ==
    /\ gemini_available
    /\ gen_raised
    /\ upc = "click_final"
    /\ Len(ConfirmedTags(log)) = 6

\* C6: the tags emitted when the collaborator is unavailable, when the
\* generation call fails and when the parsed response is empty are one and
\* the same six-item list: whichever of the three cases a run was, the tags
\* it entered equal the list of each of the three places.
C6_OneFallbackList ==
    (upc \in {"click_final", "done"} /\ ~failsafe_fired
        /\ tag_source \in {"unavailable", "error", "empty"}) =>
        /\ ConfirmedTags(log) = DefaultTagsUnavailable
        /\ ConfirmedTags(log) = DefaultTagsOnEmpty
        /\ ConfirmedTags(log) = DefaultTagsOnError

\* The simulated input actions of the log.
InputEvents(l) == SelectSeq(l, LAMBDA e : e.op \in {"click", "write", "press", "hotkey", "paste"})

\* C7: once the fail-safe has fired during an input action of the upload
\* sequence, no later click, key press, paste or final submit is performed.
C7_FailSafeCancels ==
    [][failsafe_fired => InputEvents(log') = InputEvents(log)]_vars

\* C8: for every duration D and clip length L > 0 the clips requested are
\* pairwise non-overlapping: the j-th clip covers [(j-1)*L, j*L), so each
\* starts where the one before ends; every start offset is strictly less
\* than D; and the output files (output_j.gif) are all distinct.
C8_NoOverlap ==
    duration.kind = "num" =>
        /\ \A j \in 1..Len(ffmpeg_calls) :
             /\ ffmpeg_calls[j].ss = (j - 1) * clip_length
             /\ ffmpeg_calls[j].t = clip_length
             /\ ffmpeg_calls[j].ss * duration.den < duration.num
             /\ j > 1 => ffmpeg_calls[j - 1].ss + ffmpeg_calls[j - 1].t <= ffmpeg_calls[j].ss
        /\ Cardinality({ffmpeg_calls[j].out : j \in 1..Len(ffmpeg_calls)}) = Len(ffmpeg_calls)

\* Several clips were requested, the last one shorter than L in the video.
C8_Witness ==
    /\ spc = "returned"
    /\ Len(ffmpeg_calls) >= 3
    /\ duration.num % (duration.den * clip_length) # 0

\* The tags a run acquires when nothing raises.
AcquiredTags ==
    IF gemini_available THEN TagsOrDefault(ParseTags(gen_outcome.text))
    ELSE DefaultTagsUnavailable

RECURSIVE TagEntry(_)
TagEntry(ts) ==
    IF ts = <<>> THEN <<>>
    ELSE <<Ev("paste", 0, 0, Head(ts)), Ev("press", 0, 0, <<"enter">>)>> \o TagEntry(Tail(ts))

\* The fixed script: open URL, upload control, file picker, path entry,
\* name entry, select-all, confirm/open, countdown, tag field, tag entry,
\* final submit.
ExpectedScript ==
    << Ev("open", 0, 0, <<"https://giphy.com/">>),
       Ev("click", 1229, 191, <<>>),
       Ev("click", 705, 714, <<>>),
       Ev("click", 445, 167, <<>>),
       Ev("write", 0, 0, <<"C:\\Users\\harip\\ALL TEST", "\\">>
                         \o sanitize_filename(Replace(self_video_title, " ", <<"_">>)
                                              \o <<"_", "g", "i", "f", "s">>)),
       Ev("press", 0, 0, <<"enter">>),
       Ev("click", 765, 165, <<>>),
       Ev("write", 0, 0, self_video_title),
       Ev("click", 376, 234, <<>>),
       Ev("hotkey", 0, 0, <<"ctrl", "a">>),
       Ev("click", 770, 628, <<>>) >>
    \o [n \in 1..9 |-> Ev("wait", 50 - 5 * n, 0, <<>>)]
    \o << Ev("click", 1211, 603, <<>>) >>
    \o TagEntry(AcquiredTags)
    \o << Ev("click", 1257, 1035, <<>>) >>

NoException == ~failsafe_fired /\ (gemini_available => gen_outcome.kind = "text")

\* C9: in an upload run where no exception occurs the UI steps are performed
\* once each in the fixed order: at every moment the steps performed are
\* the first ones of the fixed script, and when the run completes they are
\* the whole script, whose last step is the final submit click, after every
\* acquired tag has been pasted and confirmed.
C9_FixedOrder ==
    (NoException /\ upc # "aborted") =>
        /\ IsPrefix(log, ExpectedScript)
        /\ upc = "done" =>
             /\ log = ExpectedScript
             /\ log[Len(log)] = Ev("click", 1257, 1035, <<>>)
             /\ ConfirmedTags(log) = AcquiredTags

\* A completed run that pasted two generated tags.
C9_Witness ==
    /\ upc = "done"
    /\ NoException
    /\ tag_source = "generated"
    /\ Len(tags) = 2

\* C10: the directory the uploader types into the file picker is the output
\* directory the main program passed to the segmenter.
C10_SameDirectory ==
    gif_directory # None =>
        /\ gif_directory = final_output_dir
        /\ gif_directory[1] = output_dir
        /\ LET writes == SelectSeq(log, LAMBDA e : e.op = "write") IN
             writes # <<>> => writes[1].text = output_dir

\* The path was typed for a title with a space, a dot and a colon in it.
C10_Witness ==
    /\ gif_directory # None
    /\ upc = "enter_path"
    /\ \E t \in {video_title[1]} : Len(t) = 2 /\ t[1] \in {" ", "."} /\ t[2] = ":"
    /\ output_dir \in made_dirs

=============================================================================
